---- MODULE Spec2Model ----
(***************************************************************************)
(* Verification model of the IEEE C37.118.2 frame codec of pmu-data-       *)
(* analytics: the CRC engine, the prefix codec and the command frame       *)
(* codec of src/src/frames.rs, and the configuration / data frame walk     *)
(* over the wire layout of its frame structures.                           *)
(*                                                                         *)
(* Every operation of the codec is a pure function of its arguments.  The  *)
(* state of the model is, for each operation, the arguments and the result *)
(* of the call in progress ("call records"), plus the command frame value  *)
(* a client is building.  Unsigned machine integers are naturals kept in   *)
(* range by the operators that produce them.                               *)
(***************************************************************************)
EXTENDS Integers, Sequences, FiniteSets, TLC

VARIABLES
    crcCall,    \* calculate_crc: the buffer passed and the value returned
    pfxEnc,     \* PrefixFrame2011::to_hex: the prefix encoded and its bytes
    pfxDec,     \* PrefixFrame2011::from_hex: the array decoded and the result
    frame,      \* the CommandFrame2011 value the client holds
    origin,     \* how that value was made: constructor, idcode, touched since
    hex,        \* CommandFrame2011::to_hex: bytes returned for `frame`
    dec,        \* command frame decode: the buffer passed and the result
    reenc,      \* to_hex of the frame held in `dec`
    cfgCall,    \* parse_config_frame_1and2: buffer passed and result
    cfg,        \* the configuration frame data frames are parsed against
    dataCall,   \* parse_data_frames: buffer passed and result
    chmap,      \* get_channel_map: the entries inserted and the resulting map
    batch,      \* extract_channel_values: the arguments and the arrays returned
    disp,       \* the frame dispatcher: the buffer in hand and how far it got
    twin,       \* a second CommandFrame2011 value and the bytes to_hex returned
    wire        \* a frame as it arrived and what the CRC validation said

vars == <<crcCall, pfxEnc, pfxDec, frame, origin, hex, dec, reenc,
          cfgCall, cfg, dataCall, chmap, batch, disp, twin, wire>>

\* the state of the schema builder, the extractor, the dispatcher and the
\* second command frame, and the receiving end
restVars == <<chmap, batch, disp, twin, wire>>

Idle == [called |-> FALSE]

----------------------------------------------------------------------------
(* Machine integers and byte order                                         *)

\* a ^ b on n-bit operands, bit by bit
RECURSIVE BitXor(_, _, _)
BitXor(a, b, n) ==
    IF n = 0 THEN 0
    ELSE (((a % 2) + (b % 2)) % 2) + 2 * BitXor(a \div 2, b \div 2, n - 1)

\* a ^ b for every pair of bytes, computed once
XorBytes == [a \in 0..255 |-> [b \in 0..255 |-> BitXor(a, b, 8)]]

\* a ^ b on u16: the high bytes and the low bytes separately
Xor16(a, b) ==
    XorBytes[a \div 256][b \div 256] * 256 + XorBytes[a % 256][b % 256]

\* mutant: u16::to_le_bytes
U16ToLe(x) == << x % 256, x \div 256 >>

\* u16::to_be_bytes
U16ToBe(x) == << x \div 256, x % 256 >>

\* u32::to_be_bytes
U32ToBe(x) ==
    << x \div 16777216, (x \div 65536) % 256, (x \div 256) % 256, x % 256 >>

\* u16::from_be_bytes
U16FromBe(b0, b1) == b0 * 256 + b1

\* u32::from_be_bytes
U32FromBe(b0, b1, b2, b3) == ((b0 * 256 + b1) * 256 + b2) * 256 + b3

----------------------------------------------------------------------------
(* CRC engine: calculate_crc                                               *)

CrcSeed == 65535          \* 0xFFFF
CrcPoly == 4129           \* 0x1021
CrcTopBit == 32768        \* 0x8000
U16Mod == 65536           \* u16 arithmetic wraps modulo 2^16

\* crc << 1 on a u16: the bit shifted out is discarded
Shl1(crc) == (crc * 2) % U16Mod

\* one pass of the inner loop body:
\*   if (crc & 0x8000) != 0 { crc = (crc << 1) ^ 0x1021 } else { crc <<= 1 }
CrcShift(crc) ==
    IF (crc \div CrcTopBit) % 2 # 0
    THEN Xor16(Shl1(crc), CrcPoly)
    ELSE Shl1(crc)

\* for _ in 0..8 { ... }: n passes left, each on the value the previous one left
RECURSIVE CrcBits(_, _)
CrcBits(crc, n) ==
    IF n = 0 THEN crc
    ELSE CHOOSE r \in { CrcBits(c, n - 1) : c \in { CrcShift(crc) } } : TRUE

\* mutant: the byte is XORed into the low byte of the register
CrcByte_low(crc, byte) == CrcBits(Xor16(crc, byte), 8)

\* mutant: the top bit of the byte never reaches the register
CrcByte_7bit(crc, byte) == CrcBits(Xor16(crc, ((byte % 128) * 256) % U16Mod), 8)

\* crc ^= (byte as u16) << 8; then the eight passes
CrcByte(crc, byte) == CrcBits(Xor16(crc, (byte * 256) % U16Mod), 8)

\* for &byte in buffer { ... } over buffer[lo..hi], in order, starting from crc.
\* The range is walked by halves (first half, then the second half from the
\* value the first half left) so that long frames evaluate in shallow depth.
RECURSIVE CrcRange(_, _, _, _)
CrcRange(crc, buffer, lo, hi) ==
    IF lo > hi THEN crc
    ELSE IF lo = hi THEN CrcByte(crc, buffer[lo])
    ELSE CHOOSE r \in { CrcRange(c, buffer, ((lo + hi) \div 2) + 1, hi) :
                         c \in { CrcRange(crc, buffer, lo, (lo + hi) \div 2) } } : TRUE

\* mutant: the register starts at 0 instead of 0xFFFF
calculate_crc_seed0(buffer) == CrcRange(0, buffer, 1, Len(buffer))

calculate_crc(buffer) == CrcRange(CrcSeed, buffer, 1, Len(buffer))

----------------------------------------------------------------------------
(* Prefix codec: PrefixFrame2011                                           *)

\* struct PrefixFrame2011
PrefixFrame2011(sync, framesize, idcode, soc, fracsec) ==
    [sync |-> sync, framesize |-> framesize, idcode |-> idcode,
     soc |-> soc, fracsec |-> fracsec]

PrefixLen == 14

\* mutant: soc written with to_le_bytes
PrefixFrame2011_to_hex_le_soc(self) ==
    U16ToBe(self.sync) \o U16ToBe(self.framesize) \o U16ToBe(self.idcode)
        \o << self.soc % 256, (self.soc \div 256) % 256,
              (self.soc \div 65536) % 256, self.soc \div 16777216 >>
        \o U32ToBe(self.fracsec)

PrefixFrame2011_to_hex(self) ==
    U16ToBe(self.sync) \o U16ToBe(self.framesize) \o U16ToBe(self.idcode)
        \o U32ToBe(self.soc) \o U32ToBe(self.fracsec)

\* mutant: the decoder rejects a first byte other than 0xAA
PrefixFrame2011_from_hex_checks_sync(bytes) ==
    IF Len(bytes) # PrefixLen \/ bytes[1] # 170
    THEN [ok |-> FALSE, err |-> "Invalid byte array length"]
    ELSE [ok |-> TRUE,
          value |-> PrefixFrame2011(
              U16FromBe(bytes[1], bytes[2]),
              U16FromBe(bytes[3], bytes[4]),
              U16FromBe(bytes[5], bytes[6]),
              U32FromBe(bytes[7], bytes[8], bytes[9], bytes[10]),
              U32FromBe(bytes[11], bytes[12], bytes[13], bytes[14]))]

PrefixFrame2011_from_hex(bytes) ==
    IF Len(bytes) # PrefixLen
    THEN [ok |-> FALSE, err |-> "Invalid byte array length"]
    ELSE [ok |-> TRUE,
          value |-> PrefixFrame2011(
              U16FromBe(bytes[1], bytes[2]),
              U16FromBe(bytes[3], bytes[4]),
              U16FromBe(bytes[5], bytes[6]),
              U32FromBe(bytes[7], bytes[8], bytes[9], bytes[10]),
              U32FromBe(bytes[11], bytes[12], bytes[13], bytes[14]))]

----------------------------------------------------------------------------
(* Command frame codec: CommandFrame2011                                   *)

\* Option<Vec<u8>>
None == [some |-> FALSE]
Some(v) == [some |-> TRUE, v |-> v]

\* struct CommandFrame2011
CommandFrame2011(prefix, command, extframe, chk) ==
    [prefix |-> prefix, command |-> command, extframe |-> extframe, chk |-> chk]

CommandSync == 43585      \* 0xAA41
CommandFramesize == 18

new_command(idcode, command) ==
    CommandFrame2011(
        PrefixFrame2011(CommandSync, CommandFramesize, idcode, 0, 0),
        command, None, 0)

new_turn_off_transmission(idcode) == new_command(idcode, 1)
new_turn_on_transmission(idcode) == new_command(idcode, 2)
new_send_header_frame(idcode) == new_command(idcode, 3)
new_send_config_frame1(idcode) == new_command(idcode, 4)
new_send_config_frame2(idcode) == new_command(idcode, 5)
new_send_config_frame3(idcode) == new_command(idcode, 6)
\* mutant: the extended constructor uses the next free code after 6
new_extended_frame_code7(idcode) == new_command(idcode, 7)
new_extended_frame(idcode) == new_command(idcode, 8)

\* mutant: the extended payload is never written
CommandFrame2011_to_hex_no_ext(self) ==
    LET result == PrefixFrame2011_to_hex(self.prefix) \o U16ToBe(self.command)
    IN  result \o U16ToBe(calculate_crc(result))

\* mutant: the CRC is taken before the extended payload is appended
CommandFrame2011_to_hex_crc_early(self) ==
    LET head == PrefixFrame2011_to_hex(self.prefix) \o U16ToBe(self.command)
    IN  head \o (IF self.extframe.some THEN self.extframe.v ELSE << >>)
             \o U16ToBe(calculate_crc(head))

\* mutant: the check bytes written are the ones stored in the frame
CommandFrame2011_to_hex_stored_chk(self) ==
    PrefixFrame2011_to_hex(self.prefix)
        \o U16ToBe(self.command)
        \o (IF self.extframe.some THEN self.extframe.v ELSE << >>)
        \o U16ToBe(self.chk)

\* result.extend_from_slice(prefix.to_hex()); ...(command.to_be_bytes());
\* if let Some(extframe) ...; crc over the result so far; append it
CommandFrame2011_to_hex(self) ==
    LET result == PrefixFrame2011_to_hex(self.prefix)
                    \o U16ToBe(self.command)
                    \o (IF self.extframe.some THEN self.extframe.v ELSE << >>)
    IN  result \o U16ToBe(calculate_crc(result))

\* Decoding a command frame (not in frames.rs; the layout of section 3:
\* prefix, command word, optional extended payload, CRC).  The buffer is
\* taken whole; chk is its last two bytes, stored as read.
MinCommandLen == 18

decode_command(buffer) ==
    IF Len(buffer) < MinCommandLen
    THEN [ok |-> FALSE, err |-> "TruncatedFrame"]
    ELSE [ok |-> TRUE,
          value |-> CommandFrame2011(
              PrefixFrame2011_from_hex(SubSeq(buffer, 1, PrefixLen)).value,
              U16FromBe(buffer[15], buffer[16]),
              IF Len(buffer) > MinCommandLen
                  THEN Some(SubSeq(buffer, 17, Len(buffer) - 2))
                  ELSE None,
              U16FromBe(buffer[Len(buffer) - 1], buffer[Len(buffer)]))]

----------------------------------------------------------------------------
(* Configuration frame 1/2: ConfigurationFrame1and2_2011 and its per-PMU   *)
(* blocks PMUConfigurationFrame2011.  The field order and widths are those *)
(* of the structs; the walk over a buffer follows section 4.4 of the       *)
(* specification (the parser itself is not in frames.rs).                  *)

\* i16::from_be_bytes
I16FromBe(b0, b1) ==
    IF U16FromBe(b0, b1) >= 32768
    THEN U16FromBe(b0, b1) - 65536 ELSE U16FromBe(b0, b1)

\* buffer[pos .. pos + n] of a slice indexed from 0
Slice(buffer, pos, n) == SubSeq(buffer, pos + 1, pos + n)

\* n consecutive big-endian u32 words starting at offset pos
U32Words(buffer, pos, n) ==
    [k \in 1..n |->
        U32FromBe(buffer[pos + 4 * (k - 1) + 1], buffer[pos + 4 * (k - 1) + 2],
                  buffer[pos + 4 * (k - 1) + 3], buffer[pos + 4 * (k - 1) + 4])]

StnLen == 16              \* stn: [u8; 16]
NameLen == 16             \* 16 bytes for each channel name
BitsPerDigital == 16      \* 16 channel names per digital status word
UnitLen == 4              \* phunit, anunit, digunit: u32 per channel

\* the block's fields ahead of chnam: stn, idcode, format, phnmr, annmr, dgnmr
PmuHeadLen == StnLen + 2 + 2 + 2 + 2 + 2
\* the block's fields after digunit: fnom, cfgcnt
PmuTailLen == 2 + 2

\* chnam: Length = 16 x (PHNMR + ANNMR + 16 x DGNMR)
\* mutant: one name per digital word instead of sixteen
ChnamLen_one_per_word(phnmr, annmr, dgnmr) == NameLen * (phnmr + annmr + dgnmr)

ChnamLen(phnmr, annmr, dgnmr) ==
    NameLen * (phnmr + annmr + BitsPerDigital * dgnmr)

\* bytes one PMUConfigurationFrame2011 occupies on the wire
\* mutant: the unit tables are left out of the size
PmuBlockLen_no_units(phnmr, annmr, dgnmr) ==
    PmuHeadLen + ChnamLen(phnmr, annmr, dgnmr) + PmuTailLen

PmuBlockLen(phnmr, annmr, dgnmr) ==
    PmuHeadLen + ChnamLen(phnmr, annmr, dgnmr)
        + UnitLen * phnmr + UnitLen * annmr + UnitLen * dgnmr + PmuTailLen

\* struct PMUConfigurationFrame2011 read at offset pos; the three counts are
\* read at their fixed offsets before the variable-length regions are sized
parse_pmu_config(buffer, pos) ==
    IF pos + PmuHeadLen > Len(buffer)
    THEN [ok |-> FALSE, err |-> "InvalidChannelCount"]
    ELSE
      LET phnmr == U16FromBe(buffer[pos + 21], buffer[pos + 22])
          annmr == U16FromBe(buffer[pos + 23], buffer[pos + 24])
          dgnmr == U16FromBe(buffer[pos + 25], buffer[pos + 26])
          size == PmuBlockLen(phnmr, annmr, dgnmr)
          chnamAt == pos + PmuHeadLen
          phunitAt == chnamAt + ChnamLen(phnmr, annmr, dgnmr)
          anunitAt == phunitAt + UnitLen * phnmr
          digunitAt == anunitAt + UnitLen * annmr
          fnomAt == digunitAt + UnitLen * dgnmr
      IN  IF pos + size > Len(buffer)
          THEN [ok |-> FALSE, err |-> "InvalidChannelCount"]
          ELSE [ok |-> TRUE,
                size |-> size,
                value |->
                  [stn |-> Slice(buffer, pos, StnLen),
                   idcode |-> U16FromBe(buffer[pos + 17], buffer[pos + 18]),
                   format |-> U16FromBe(buffer[pos + 19], buffer[pos + 20]),
                   phnmr |-> phnmr,
                   annmr |-> annmr,
                   dgnmr |-> dgnmr,
                   chnam |-> Slice(buffer, chnamAt, ChnamLen(phnmr, annmr, dgnmr)),
                   phunit |-> U32Words(buffer, phunitAt, phnmr),
                   anunit |-> U32Words(buffer, anunitAt, annmr),
                   digunit |-> U32Words(buffer, digunitAt, dgnmr),
                   fnom |-> U16FromBe(buffer[fnomAt + 1], buffer[fnomAt + 2]),
                   cfgcnt |-> U16FromBe(buffer[fnomAt + 3], buffer[fnomAt + 4])]]

\* the sequential multi-PMU walk: n blocks from offset pos on; returns the
\* blocks, the size of each, and the offset after the last
RECURSIVE parse_pmu_configs(_, _, _)
parse_pmu_configs(buffer, pos, n) ==
    IF n = 0 THEN [ok |-> TRUE, pos |-> pos, blocks |-> << >>, sizes |-> << >>]
    ELSE LET first == parse_pmu_config(buffer, pos)
         IN  IF ~first.ok THEN first
             ELSE LET rest == parse_pmu_configs(buffer, pos + first.size, n - 1)
                  IN  IF ~rest.ok THEN rest
                      ELSE [ok |-> TRUE, pos |-> rest.pos,
                            blocks |-> <<first.value>> \o rest.blocks,
                            sizes |-> <<first.size>> \o rest.sizes]

ConfigHeadLen == PrefixLen + 4 + 2     \* prefix, time_base, num_pmu
ConfigTailLen == 2 + 2                 \* data_rate, chk

\* parse_config_frame_1and2: steps 1 to 5 of section 4.4.  `consumed` is the
\* offset the walk has reached after chk; `sizes` the bytes of each block.
parse_config_frame_1and2(buffer) ==
    IF Len(buffer) < ConfigHeadLen
    THEN [ok |-> FALSE, err |-> "TruncatedFrame"]
    ELSE
      LET prefix == PrefixFrame2011_from_hex(SubSeq(buffer, 1, PrefixLen)).value
          time_base == U32FromBe(buffer[15], buffer[16], buffer[17], buffer[18])
          num_pmu == U16FromBe(buffer[19], buffer[20])
          walk == parse_pmu_configs(buffer, ConfigHeadLen, num_pmu)
      IN  IF prefix.framesize > Len(buffer)
          THEN [ok |-> FALSE, err |-> "TruncatedFrame"]
          ELSE IF ~walk.ok
          THEN [ok |-> FALSE, err |-> walk.err]
          ELSE IF walk.pos + ConfigTailLen > Len(buffer)
          THEN [ok |-> FALSE, err |-> "TruncatedFrame"]
          ELSE
            LET data_rate == I16FromBe(buffer[walk.pos + 1], buffer[walk.pos + 2])
                chk == U16FromBe(buffer[walk.pos + 3], buffer[walk.pos + 4])
            IN  IF calculate_crc(SubSeq(buffer, 1, prefix.framesize - 2)) # chk
                THEN [ok |-> FALSE, err |-> "CrcMismatch"]
                ELSE [ok |-> TRUE,
                      value |-> [prefix |-> prefix, time_base |-> time_base,
                                 num_pmu |-> num_pmu, pmu_configs |-> walk.blocks,
                                 data_rate |-> data_rate, chk |-> chk],
                      sizes |-> walk.sizes,
                      consumed |-> walk.pos + ConfigTailLen]

----------------------------------------------------------------------------
(* Data frames, parsed against a configuration (section 4.5 and 4.6 of the *)
(* specification; the format bits are those documented on                  *)
(* PMUConfigurationFrame2011.format).                                      *)

FormatBit_from_one(format, k) == (format \div (2 ^ (k - 1))) % 2 = 1

\* bit k of a format word
FormatBit(format, k) == (format \div (2 ^ k)) % 2 = 1

\* Bit 1: phasors 16-bit integer (4 bytes a phasor) or floating point (8)
phasor_size(c) == IF FormatBit(c.format, 1) THEN 8 ELSE 4
\* Bit 2: analogs 16-bit integer (2 bytes) or floating point (4)
analog_size(c) == IF FormatBit(c.format, 2) THEN 4 ELSE 2
\* Bit 3: freq/dfreq 16-bit integer (2 bytes) or floating point (4)
freq_dfreq_size(c) == IF FormatBit(c.format, 3) THEN 4 ELSE 2

\* bytes of one per-PMU data record: stat, phasors, freq, dfreq, analog, digital
PmuRecordLen(c) ==
    2 + c.phnmr * phasor_size(c) + freq_dfreq_size(c) + freq_dfreq_size(c)
      + c.annmr * analog_size(c) + c.dgnmr * 2

RECURSIVE SumRecordLen(_, _)
SumRecordLen(pmu_configs, n) ==
    IF n = 0 THEN 0
    ELSE SumRecordLen(pmu_configs, n - 1) + PmuRecordLen(pmu_configs[n])

\* ConfigurationFrame1and2_2011::calc_data_frame_size
calc_data_frame_size(config) ==
    PrefixLen + SumRecordLen(config.pmu_configs, Len(config.pmu_configs)) + 2

\* one per-PMU record read at offset pos
parse_pmu_record(buffer, pos, c) ==
    LET phasorsAt == pos + 2
        freqAt == phasorsAt + c.phnmr * phasor_size(c)
        dfreqAt == freqAt + freq_dfreq_size(c)
        analogAt == dfreqAt + freq_dfreq_size(c)
        digitalAt == analogAt + c.annmr * analog_size(c)
    IN  [stat |-> U16FromBe(buffer[pos + 1], buffer[pos + 2]),
         phasors |-> Slice(buffer, phasorsAt, c.phnmr * phasor_size(c)),
         freq |-> Slice(buffer, freqAt, freq_dfreq_size(c)),
         dfreq |-> Slice(buffer, dfreqAt, freq_dfreq_size(c)),
         analog |-> Slice(buffer, analogAt, c.annmr * analog_size(c)),
         digital |-> Slice(buffer, digitalAt, c.dgnmr * 2)]

\* the records of PMUs k.. of the configuration, from offset pos on;
\* TruncatedFrame if the cursor exceeds limit (framesize - 2)
RECURSIVE parse_pmu_records(_, _, _, _, _)
parse_pmu_records(buffer, pos, pmu_configs, k, limit) ==
    IF pos > limit THEN [ok |-> FALSE, err |-> "TruncatedFrame"]
    ELSE IF k > Len(pmu_configs) THEN [ok |-> TRUE, pos |-> pos, data |-> << >>]
    ELSE IF pos + PmuRecordLen(pmu_configs[k]) > limit
    THEN [ok |-> FALSE, err |-> "TruncatedFrame"]
    ELSE LET rest == parse_pmu_records(
                         buffer, pos + PmuRecordLen(pmu_configs[k]),
                         pmu_configs, k + 1, limit)
         IN  IF ~rest.ok THEN rest
             ELSE [ok |-> TRUE, pos |-> rest.pos,
                   data |-> <<parse_pmu_record(buffer, pos, pmu_configs[k])>>
                               \o rest.data]

FrameType_bits_7_5(sync) == (sync \div 32) % 8

\* bits 6-4 of the second sync byte
FrameType(sync) == (sync \div 16) % 8
DataFrameType == 0

\* parse_data_frames: section 4.6.  `consumed` is the offset after chk.
parse_data_frames(buffer, config) ==
    IF Len(buffer) < PrefixLen
    THEN [ok |-> FALSE, err |-> "TruncatedFrame"]
    ELSE
      LET prefix == PrefixFrame2011_from_hex(SubSeq(buffer, 1, PrefixLen)).value
          walk == parse_pmu_records(buffer, PrefixLen, config.pmu_configs, 1,
                                    prefix.framesize - 2)
      IN  IF prefix.framesize > Len(buffer)
          THEN [ok |-> FALSE, err |-> "TruncatedFrame"]
          ELSE IF FrameType(prefix.sync) # DataFrameType
          THEN [ok |-> FALSE, err |-> "UnknownFrameType"]
          ELSE IF ~walk.ok
          THEN [ok |-> FALSE, err |-> walk.err]
          ELSE
            LET chk == U16FromBe(buffer[walk.pos + 1], buffer[walk.pos + 2])
            IN  IF calculate_crc(SubSeq(buffer, 1, prefix.framesize - 2)) # chk
                THEN [ok |-> FALSE, err |-> "CrcMismatch"]
                ELSE [ok |-> TRUE,
                      value |-> [prefix |-> prefix, data |-> walk.data, chk |-> chk],
                      consumed |-> walk.pos + 2]

----------------------------------------------------------------------------
(* Schema builder (section 4.5 and 4.7 of the specification): names are    *)
(* ASCII byte strings                                                      *)

\* the sequences of a sequence, one after the other
RECURSIVE Concat(_)
Concat(ss) == IF ss = << >> THEN << >> ELSE Head(ss) \o Concat(Tail(ss))

\* right-trim ASCII spaces
RECURSIVE RTrim(_)
RTrim(bytes) ==
    IF bytes # << >> /\ bytes[Len(bytes)] = 32
    THEN RTrim(SubSeq(bytes, 1, Len(bytes) - 1))
    ELSE bytes

\* u16 formatted in decimal
RECURSIVE Decimal(_)
Decimal(n) ==
    IF n < 10 THEN << 48 + n >> ELSE Decimal(n \div 10) \o << 48 + (n % 10) >>

\* station_name(): stn right-trimmed
station_name(c) == RTrim(c.stn)

\* channel_names(): chnam in 16-byte windows, each right-trimmed; phasors,
\* then analogs, then 16 digital-bit names per digital word
channel_names(c) ==
    [k \in 1..(Len(c.chnam) \div NameLen) |->
        RTrim(SubSeq(c.chnam, (k - 1) * NameLen + 1, k * NameLen))]

\* "<station>_<idcode>_<channel>"
Qualified(c, channel) ==
    station_name(c) \o <<95>> \o Decimal(c.idcode) \o <<95>> \o channel

ChannelMap(full_name, offset, size, data_type) ==
    [full_name |-> full_name, offset |-> offset, size |-> size,
     data_type |-> data_type]

\* the synthetic "timestamp" entry: soc and fracsec read as one value
TimestampEntry ==
    ChannelMap(<<116, 105, 109, 101, 115, 116, 97, 109, 112>>, 6, 8,
               "TimestampMicros")

\* the entries of one PMU whose record starts at offset base, in order:
\* STAT, X and Y of each phasor, FREQ, DFREQ, analogs, digital-bit names
PmuEntries(c, base) ==
    LET names == channel_names(c)
        half == phasor_size(c) \div 2
        phType == IF FormatBit(c.format, 1) THEN "Float32" ELSE "Int16"
        frType == IF FormatBit(c.format, 3) THEN "Float32" ELSE "Int16"
        anType == IF FormatBit(c.format, 2) THEN "Float32" ELSE "Int16"
        phasorsAt == base + 2
        freqAt == phasorsAt + c.phnmr * phasor_size(c)
        dfreqAt == freqAt + freq_dfreq_size(c)
        analogAt == dfreqAt + freq_dfreq_size(c)
        digitalAt == analogAt + c.annmr * analog_size(c)
    IN  << ChannelMap(Qualified(c, <<83, 84, 65, 84>>), base, 2, "UInt16") >>
        \o Concat([k \in 1..c.phnmr |->
              << ChannelMap(Qualified(c, names[k] \o <<95, 88>>),
                            phasorsAt + (k - 1) * phasor_size(c), half, phType),
                 ChannelMap(Qualified(c, names[k] \o <<95, 89>>),
                            phasorsAt + (k - 1) * phasor_size(c) + half, half,
                            phType) >>])
        \o << ChannelMap(Qualified(c, <<70, 82, 69, 81>>), freqAt,
                         freq_dfreq_size(c), frType),
              ChannelMap(Qualified(c, <<68, 70, 82, 69, 81>>), dfreqAt,
                         freq_dfreq_size(c), frType) >>
        \o [k \in 1..c.annmr |->
              ChannelMap(Qualified(c, names[c.phnmr + k]),
                         analogAt + (k - 1) * analog_size(c), analog_size(c),
                         anType)]
        \o [k \in 1..(BitsPerDigital * c.dgnmr) |->
              ChannelMap(Qualified(c, names[c.phnmr + c.annmr + k]),
                         digitalAt + ((k - 1) \div BitsPerDigital) * 2, 2,
                         "UInt16")]

\* the offset after the record of a PMU that starts at base
PmuEnd(c, base) ==
    base + 2 + c.phnmr * phasor_size(c) + 2 * freq_dfreq_size(c)
         + c.annmr * analog_size(c) + 2 * c.dgnmr

\* the entries the builder inserts for PMUs k.. with the k-th starting at base
RECURSIVE EntriesFrom(_, _, _)
EntriesFrom(pmu_configs, k, base) ==
    IF k > Len(pmu_configs) THEN << >>
    ELSE PmuEntries(pmu_configs[k], base)
            \o EntriesFrom(pmu_configs, k + 1, PmuEnd(pmu_configs[k], base))

\* every insertion the builder makes, in order
channel_entries(config) ==
    << TimestampEntry >> \o EntriesFrom(config.pmu_configs, 1, PrefixLen)

\* insertion into the ordered name-keyed map: a name already present keeps
\* its place and takes the new entry
InsertChannel(map, e) ==
    IF \E i \in 1..Len(map) : map[i].full_name = e.full_name
    THEN LET at == CHOOSE i \in 1..Len(map) : map[i].full_name = e.full_name
         IN  [map EXCEPT ![at] = e]
    ELSE Append(map, e)

\* entries lo..hi inserted in order.  The range is walked by halves (the
\* first half, then the second half into the map the first half left) so that
\* a long list of entries evaluates in shallow depth.
RECURSIVE InsertAll(_, _, _, _)
InsertAll(map, entries, lo, hi) ==
    IF lo > hi THEN map
    ELSE IF lo = hi THEN InsertChannel(map, entries[lo])
    ELSE CHOOSE r \in { InsertAll(m, entries, ((lo + hi) \div 2) + 1, hi) :
                         m \in { InsertAll(map, entries, lo, (lo + hi) \div 2) } } : TRUE

\* ConfigurationFrame1and2_2011::get_channel_map
get_channel_map(config) ==
    LET entries == CHOOSE es \in { channel_entries(config) } : TRUE
    IN  InsertAll(<< >>, entries, 1, Len(entries))

----------------------------------------------------------------------------
(* Frame dispatcher (section 4.9 of the specification): the frame kinds of *)
(* the sync word and the parser each one goes to                           *)

HeaderFrameType == 1
Config1FrameType == 2
Config2FrameType == 3
CommandFrameType == 4
Config3FrameType == 5

\* the parser a frame type selects
ParserFor(type) ==
    CASE type = DataFrameType -> [ok |-> TRUE, parser |-> "parse_data_frames"]
      [] type = HeaderFrameType -> [ok |-> TRUE, parser |-> "parse_header_frame"]
      [] type = Config1FrameType -> [ok |-> TRUE, parser |-> "parse_config_frame_1and2"]
      [] type = Config2FrameType -> [ok |-> TRUE, parser |-> "parse_config_frame_1and2"]
      [] type = CommandFrameType -> [ok |-> TRUE, parser |-> "parse_command_frame"]
      [] type = Config3FrameType -> [ok |-> TRUE, parser |-> "parse_config_frame_3"]
      [] OTHER -> [ok |-> FALSE, err |-> "UnknownFrameType"]

----------------------------------------------------------------------------
(* Frame validation as test_crc_validation performs it                     *)

\* u16::from_be_bytes([buffer[2], buffer[3]])
frame_size_of(buffer) == U16FromBe(buffer[3], buffer[4])

\* calculate_crc(&buffer[..frame_size - 2])
calculated_crc(buffer) ==
    calculate_crc(SubSeq(buffer, 1, frame_size_of(buffer) - 2))

\* u16::from_be_bytes([buffer[frame_size - 2], buffer[frame_size - 1]])
frame_crc(buffer) ==
    U16FromBe(buffer[frame_size_of(buffer) - 1], buffer[frame_size_of(buffer)])

\* the frame passes when the two are equal
crc_validates(buffer) == calculated_crc(buffer) = frame_crc(buffer)

\* the three lines on a buffer of at least 4 bytes: frame_size - 2 on a usize
\* below 2 and a slice or index past the buffer panic; otherwise assert_eq!
validate_frame(buffer) ==
    IF frame_size_of(buffer) < 2
    THEN [ok |-> FALSE, panic |-> "attempt to subtract with overflow"]
    ELSE IF frame_size_of(buffer) - 2 > Len(buffer)
    THEN [ok |-> FALSE, panic |-> "range end index out of range"]
    ELSE IF frame_size_of(buffer) > Len(buffer)
    THEN [ok |-> FALSE, panic |-> "index out of bounds"]
    ELSE IF crc_validates(buffer)
    THEN [ok |-> TRUE]
    ELSE [ok |-> FALSE, err |-> "CRC mismatch"]

----------------------------------------------------------------------------
(* Columnar extractor (section 4.8 of the specification) and the timestamp *)
(* column as test_arrow_frame_creation computes it.  A 64-bit count of     *)
(* microseconds is kept as whole seconds and the microseconds within the   *)
(* second: the value is sec * 1_000_000 + usec.                            *)

MicrosPerSec == 1000000

\* (soc as i64) * 1_000_000 + (extra as i64)
Micros(soc, extra) ==
    [sec |-> soc + (extra \div MicrosPerSec), usec |-> extra % MicrosPerSec]

\* timestamps.push((soc as i64) * 1_000_000 + (fracsec as i64))
timestamp_us(soc, fracsec) == Micros(soc, fracsec)

\* let num_frames = buffer.len() / frame_size
num_frames(buffer, frame_size) == Len(buffer) \div frame_size

\* the bytes a row is read from: size bytes at frame_size * i + offset
RowStart(frame_size, i, info) == frame_size * i + info.offset

\* big-endian decode per data_type; an f32 is kept as its bit pattern, high
\* and low half
decode_value(bytes, data_type) ==
    CASE data_type = "Int16" -> I16FromBe(bytes[1], bytes[2])
      [] data_type = "UInt16" -> U16FromBe(bytes[1], bytes[2])
      [] data_type = "Float32" ->
            [bits |-> << U16FromBe(bytes[1], bytes[2]),
                         U16FromBe(bytes[3], bytes[4]) >>]
      [] data_type = "TimestampMicros" ->
            timestamp_us(U32FromBe(bytes[1], bytes[2], bytes[3], bytes[4]),
                         U32FromBe(bytes[5], bytes[6], bytes[7], bytes[8]))

\* extract_channel_values(buffer, frame_size, info): one value per frame in
\* the order of the frames; a slice that ends past the buffer is an
\* out-of-range index
extract_channel_values(buffer, frame_size, info) ==
    LET n == num_frames(buffer, frame_size)
        reads == [i \in 1..n |->
                    [start |-> RowStart(frame_size, i - 1, info),
                     end |-> RowStart(frame_size, i - 1, info) + info.size]]
    IN  IF \E i \in 1..n : reads[i].end > Len(buffer)
        THEN [ok |-> FALSE, reads |-> reads, panic |-> "range end index out of range"]
        ELSE [ok |-> TRUE, reads |-> reads,
              values |-> [i \in 1..n |->
                  decode_value(Slice(buffer, reads[i].start, info.size),
                               info.data_type)]]

----------------------------------------------------------------------------
(* Inputs the callers draw from                                            *)

MaxCrcLen == 3
MaxExtLen == 2
MaxPmu == 2

\* the reference vectors of IEEE C37.118.2-2011 Table B.1
CrcRefVectors ==
    { <<65, 66, 67, 68>>, <<49, 50, 51, 52, 53, 54>>, <<97, 98, 99>> }

CrcByteVals == {0, 1, 65, 128, 255}

CrcBuffers ==
    CrcRefVectors \cup UNION { [1..n -> CrcByteVals] : n \in 0..MaxCrcLen }

SyncVals == {43585, 258}              \* 0xAA41, 0x0102
FramesizeVals == {18, 772}            \* 0x0012, 0x0304
IdcodeVals == {7734, 1, 65535}        \* 0x1E36, 0x0001, 0xFFFF
SocVals == {0, 1149591600}            \* 0x44852830
FracsecVals == {0, 252428240}         \* 0x0F0BFBD0
CommandVals == {2, 7, 8, 1286}        \* 0x0506
ChkVals == {0, 48879}                 \* 0xBEEF

PrefixVals ==
    { PrefixFrame2011(sy, fs, id, so, fr) :
        sy \in SyncVals, fs \in FramesizeVals, id \in IdcodeVals,
        so \in SocVals, fr \in FracsecVals }

\* opaque extended payloads: the first n bytes of 0x01, 0xFE, 0x03, 0xFC, ...
ExtPayload(n) == [i \in 1..n |-> IF i % 2 = 1 THEN i ELSE 255 - i]
ExtVals == {None} \cup { Some(ExtPayload(n)) : n \in 0..MaxExtLen }

\* 14-byte arrays: byte i is s + i*m (mod 256); the top bytes of the two
\* 32-bit fields stay below 0x80 so that the decoded value is a TLC integer
ArrayByte(s, m, i) ==
    IF i \in {7, 11} THEN ((s + i * m) % 256) % 128 ELSE (s + i * m) % 256
ByteArrays ==
    { [i \in 1..PrefixLen |-> ArrayByte(s, m, i)] :
        s \in {0, 90, 170, 243}, m \in {0, 1, 17} }

\* buffers handed to the command decoder: a 14-byte array, a command word,
\* a payload, and two check bytes that are either the CRC of what precedes
\* them or zero; and the same cut one byte short of the minimum
CommandWords == { <<0, 2>>, <<0, 8>>, <<5, 6>> }
CommandHeads ==
    { a \o w \o ExtPayload(n) :
        a \in ByteArrays, w \in CommandWords, n \in 0..MaxExtLen }
CommandBuffers ==
    { h \o U16ToBe(calculate_crc(h)) : h \in CommandHeads }
        \cup { h \o <<0, 0>> : h \in CommandHeads }
        \cup { a \o <<0, 2, 0>> : a \in ByteArrays }

\* Configuration frames on the wire.  A PMU is described by its format word
\* and its three counts; the first is the PMU of the standard's example
\* (format 4, 4 phasors, 3 analogs, 1 digital word).
PmuDesc(format, phnmr, annmr, dgnmr) ==
    [format |-> format, phnmr |-> phnmr, annmr |-> annmr, dgnmr |-> dgnmr]

PmuDescs ==
    { PmuDesc(4, 4, 3, 1), PmuDesc(0, 0, 0, 0),
      PmuDesc(15, 2, 1, 0), PmuDesc(10, 1, 0, 0) }

PmuLists == UNION { [1..n -> PmuDescs] : n \in 0..MaxPmu }

\* "Station A" and "CH<k>" padded with spaces to 16 bytes
StationName == <<83, 116, 97, 116, 105, 111, 110, 32, 65, 32, 32, 32, 32, 32, 32, 32>>
ChannelName(k) ==
    <<67, 72, 48 + ((k \div 100) % 10), 48 + ((k \div 10) % 10), 48 + (k % 10)>>
        \o [i \in 1..11 |-> 32]

\* the bytes of one per-PMU block with the given counts
PmuBlockBytes(d) ==
    StationName \o U16ToBe(7734) \o U16ToBe(d.format)
        \o U16ToBe(d.phnmr) \o U16ToBe(d.annmr) \o U16ToBe(d.dgnmr)
        \o Concat([k \in 1..(d.phnmr + d.annmr + 16 * d.dgnmr) |-> ChannelName(k)])
        \o Concat([k \in 1..d.phnmr |-> <<0, 13, 248, 71>>])
        \o Concat([k \in 1..d.annmr |-> <<0, 0, 0, 1>>])
        \o Concat([k \in 1..d.dgnmr |-> <<0, 0, 255, 255>>])
        \o <<0, 0>> \o <<0, 22>>

\* everything of a configuration frame ahead of chk, with framesize field fs
ConfigBody(pmus, fs) ==
    PrefixFrame2011_to_hex(PrefixFrame2011(43569, fs, 7734, 1149577200, 463000))
        \o U32ToBe(1000000) \o U16ToBe(Len(pmus))
        \o Concat([k \in 1..Len(pmus) |-> PmuBlockBytes(pmus[k])])
        \o U16ToBe(30)

\* the length of a well-formed frame for these PMUs
ConfigLen(pmus) == Len(ConfigBody(pmus, 0)) + 2

\* frames a peer may send for a list of PMUs:
\*   exact    framesize is the frame's length and chk is the CRC of the rest
\*   badcrc   the same with the last check byte changed
\*   cut      the exact frame with its last byte missing
\*   short    framesize two less than the length; chk, after data_rate, is
\*            the CRC of the first framesize-2 bytes
\*   padded   framesize four more than the fields need: after data_rate come
\*            two zero bytes, the CRC of everything so far, and two more bytes
ConfigKinds == {"exact", "badcrc", "cut", "short", "padded"}

\* body followed by the CRC of its first n bytes
WithCrcOf(body, n) == body \o U16ToBe(calculate_crc(SubSeq(body, 1, n)))

ConfigFrame(pmus, kind) ==
    LET n == ConfigLen(pmus)
        exact == WithCrcOf(ConfigBody(pmus, n), n - 2)
    IN  CASE kind = "exact" -> exact
          [] kind = "badcrc" ->
                SubSeq(exact, 1, n - 1) \o << (exact[n] + 1) % 256 >>
          [] kind = "cut" -> SubSeq(exact, 1, n - 1)
          [] kind = "short" -> WithCrcOf(ConfigBody(pmus, n - 2), n - 4)
          [] kind = "padded" ->
                WithCrcOf(ConfigBody(pmus, n + 4) \o <<0, 0>>, n) \o <<0, 0>>

\* Data frames on the wire for a list of PMU configurations: each record is
\* a zero stat word followed by the bytes 1, 2, 3, ... of its fields
PmuRecordBytes(c) == <<0, 0>> \o [i \in 1..(PmuRecordLen(c) - 2) |-> i % 256]

DataBody(pmu_configs, sync, fs) ==
    PrefixFrame2011_to_hex(PrefixFrame2011(sync, fs, 7734, 1149580800, 16817))
        \o Concat([k \in 1..Len(pmu_configs) |-> PmuRecordBytes(pmu_configs[k])])

DataLen(pmu_configs) == Len(DataBody(pmu_configs, 0, 0)) + 2

\* frames a peer may send against a configuration:
\*   exact    framesize is the frame's length and chk is the CRC of the rest
\*   badcrc   the same with the last check byte changed
\*   cut      the exact frame with its last byte missing
\*   short    framesize two less than the records need
\*   padded   framesize four more than the records need: after the records
\*            come two zero bytes, the CRC of everything so far, and two more
\*   config   a well-formed frame whose sync says configuration frame 2
\*   other    the exact frame of a different configuration (one int PMU with
\*            one phasor more than the first PMU configured, if any)
DataKinds == {"exact", "badcrc", "cut", "short", "padded", "config", "other"}

OtherConfig(pmu_configs) ==
    << PmuDesc(0, IF pmu_configs = << >> THEN 1 ELSE pmu_configs[1].phnmr + 1,
               0, 0) >>

DataFrame(pmu_configs, kind) ==
    LET n == DataLen(pmu_configs)
        exact == WithCrcOf(DataBody(pmu_configs, 43521, n), n - 2)
    IN  CASE kind = "exact" -> exact
          [] kind = "badcrc" ->
                SubSeq(exact, 1, n - 1) \o << (exact[n] + 1) % 256 >>
          [] kind = "cut" -> SubSeq(exact, 1, n - 1)
          [] kind = "short" -> WithCrcOf(DataBody(pmu_configs, 43521, n - 2), n - 4)
          [] kind = "padded" ->
                WithCrcOf(DataBody(pmu_configs, 43521, n + 4) \o <<0, 0>>, n)
                    \o <<0, 0>>
          [] kind = "config" -> WithCrcOf(DataBody(pmu_configs, 43569, n), n - 2)
          [] kind = "other" ->
                WithCrcOf(DataBody(OtherConfig(pmu_configs), 43521,
                                   DataLen(OtherConfig(pmu_configs))),
                          DataLen(OtherConfig(pmu_configs)) - 2)

\* Buffers handed to the extractor: `frames` frames of frame_size bytes and
\* `trail` more bytes that do not fill a frame
MaxFrames == 2
MaxTrail == 2

\* short frames of plain bytes, low (seed 0) or high (seed 1) values
PlainFrameSizes == {1, 2, 3, 4}
PlainSeeds == {0, 1}
PlainByte(seed, k) == IF seed = 0 THEN (7 * k) % 128 ELSE (200 + 37 * k) % 256
PlainBuffer(frame_size, frames, trail, seed) ==
    [k \in 1..(frame_size * frames + trail) |-> PlainByte(seed, k)]

\* channel entries over such frames: 2-byte integers and 4-byte floats at
\* offsets inside, across and beyond the frame
PlainChannels ==
    { ChannelMap(<<67, 72>>, offset, 2, data_type) :
         offset \in 0..3, data_type \in {"Int16", "UInt16"} }
    \cup { ChannelMap(<<67, 72>>, offset, 4, "Float32") : offset \in 0..1 }

\* 16-byte data frames of a configuration without PMUs: frame i carries soc
\* + (i \div 2); odd frames carry the time-quality bits `quality` in the high
\* byte of fracsec
StampedSoc == 1149580800
StampedFracs == {16817, 463}
QualityVals == {0, 15}
TimeBaseVals == {1000000, 1000}
StampedFrame(i, frac, quality) ==
    WithCrcOf(
        PrefixFrame2011_to_hex(
            PrefixFrame2011(43521, 16, 7734, StampedSoc + (i \div 2),
                            IF i % 2 = 1 THEN quality * 16777216 + frac
                            ELSE frac)),
        14)
StampedBuffer(frames, trail, frac, quality) ==
    Concat([i \in 1..frames |-> StampedFrame(i - 1, frac, quality)])
        \o [k \in 1..trail |-> 170]

\* Buffers offered to the dispatcher: the first `len` bytes of a frame with
\* the given type bits and framesize field
MaxDispLen == 7
DispFramesizes == {4, 6}
DispBuffer(type, framesize, len) ==
    [k \in 1..len |->
        CASE k = 1 -> 170
          [] k = 2 -> 16 * type + 1
          [] k = 3 -> 0
          [] k = 4 -> framesize
          [] OTHER -> (16 + k) % 256]
DispBuffers ==
    { DispBuffer(type, framesize, len) :
        type \in 0..7, framesize \in DispFramesizes, len \in 0..MaxDispLen }

----------------------------------------------------------------------------
(* Initial state: nothing constructed, no call made                        *)

InitRest ==
    /\ chmap = Idle
    /\ batch = Idle
    /\ disp = [pc |-> "idle", last |-> "none"]
    /\ twin = [made |-> FALSE]
    /\ wire = Idle

NoOrigin == [ctor |-> "none", idcode |-> 0, touched |-> FALSE]

Init ==
    /\ crcCall = Idle
    /\ pfxEnc = Idle
    /\ pfxDec = Idle
    /\ frame = [made |-> FALSE]
    /\ origin = NoOrigin
    /\ hex = Idle
    /\ dec = Idle
    /\ reenc = Idle
    /\ cfgCall = Idle
    /\ cfg = Idle
    /\ dataCall = Idle
    /\ InitRest

----------------------------------------------------------------------------
(* The CRC engine called on a buffer                                       *)

CallCrc(buffer) ==
    /\ crcCall = Idle
    /\ crcCall' = [called |-> TRUE, buffer |-> buffer,
                   crc |-> calculate_crc(buffer)]
    /\ UNCHANGED <<pfxEnc, pfxDec, frame, origin, hex, dec, reenc,
                   cfgCall, cfg, dataCall, restVars>>

ReturnCrc ==
    /\ crcCall.called
    /\ crcCall' = Idle
    /\ UNCHANGED <<pfxEnc, pfxDec, frame, origin, hex, dec, reenc,
                   cfgCall, cfg, dataCall, restVars>>

NextCrc ==
    \/ \E buffer \in CrcBuffers : CallCrc(buffer)
    \/ ReturnCrc

SpecCrc == Init /\ [][NextCrc]_vars

----------------------------------------------------------------------------
(* The prefix codec called by a client                                     *)

\* to_hex on a prefix the client built
EncodePrefix(p) ==
    /\ pfxEnc = Idle /\ pfxDec = Idle
    /\ pfxEnc' = [called |-> TRUE, of |-> p, bytes |-> PrefixFrame2011_to_hex(p)]
    /\ UNCHANGED <<crcCall, pfxDec, frame, origin, hex, dec, reenc,
                   cfgCall, cfg, dataCall, restVars>>

\* from_hex on an array read from the wire
DecodeArray(b) ==
    /\ pfxEnc = Idle /\ pfxDec = Idle
    /\ pfxDec' = [called |-> TRUE, input |-> b,
                  result |-> PrefixFrame2011_from_hex(b)]
    /\ UNCHANGED <<crcCall, pfxEnc, frame, origin, hex, dec, reenc,
                   cfgCall, cfg, dataCall, restVars>>

\* from_hex on the array to_hex just returned
DecodeEncoded ==
    /\ pfxEnc.called /\ pfxDec = Idle
    /\ pfxDec' = [called |-> TRUE, input |-> pfxEnc.bytes,
                  result |-> PrefixFrame2011_from_hex(pfxEnc.bytes)]
    /\ UNCHANGED <<crcCall, pfxEnc, frame, origin, hex, dec, reenc,
                   cfgCall, cfg, dataCall, restVars>>

\* to_hex on the prefix from_hex just returned
EncodeDecoded ==
    /\ pfxDec.called /\ pfxDec.result.ok /\ pfxEnc = Idle
    /\ pfxEnc' = [called |-> TRUE, of |-> pfxDec.result.value,
                  bytes |-> PrefixFrame2011_to_hex(pfxDec.result.value)]
    /\ UNCHANGED <<crcCall, pfxDec, frame, origin, hex, dec, reenc,
                   cfgCall, cfg, dataCall, restVars>>

DropPrefix ==
    /\ pfxEnc.called \/ pfxDec.called
    /\ pfxEnc' = Idle
    /\ pfxDec' = Idle
    /\ UNCHANGED <<crcCall, frame, origin, hex, dec, reenc,
                   cfgCall, cfg, dataCall, restVars>>

NextPrefix ==
    \/ \E p \in PrefixVals : EncodePrefix(p)
    \/ \E b \in ByteArrays : DecodeArray(b)
    \/ DecodeEncoded
    \/ EncodeDecoded
    \/ DropPrefix

SpecPrefix == Init /\ [][NextPrefix]_vars

----------------------------------------------------------------------------
(* A client building, stamping and encoding a command frame                *)

CmdRest == <<crcCall, pfxEnc, pfxDec, dec, reenc, cfgCall, cfg, dataCall, restVars>>

\* the frame value a client holds, and where it came from
Held(value) == [made |-> TRUE, value |-> value]
Built(ctor, idcode) == [ctor |-> ctor, idcode |-> idcode, touched |-> FALSE]

CallNewTurnOffTransmission(idcode) ==
    /\ ~frame.made
    /\ frame' = Held(new_turn_off_transmission(idcode))
    /\ origin' = Built("new_turn_off_transmission", idcode)
    /\ hex' = Idle
    /\ UNCHANGED CmdRest

CallNewTurnOnTransmission(idcode) ==
    /\ ~frame.made
    /\ frame' = Held(new_turn_on_transmission(idcode))
    /\ origin' = Built("new_turn_on_transmission", idcode)
    /\ hex' = Idle
    /\ UNCHANGED CmdRest

CallNewSendHeaderFrame(idcode) ==
    /\ ~frame.made
    /\ frame' = Held(new_send_header_frame(idcode))
    /\ origin' = Built("new_send_header_frame", idcode)
    /\ hex' = Idle
    /\ UNCHANGED CmdRest

CallNewSendConfigFrame1(idcode) ==
    /\ ~frame.made
    /\ frame' = Held(new_send_config_frame1(idcode))
    /\ origin' = Built("new_send_config_frame1", idcode)
    /\ hex' = Idle
    /\ UNCHANGED CmdRest

CallNewSendConfigFrame2(idcode) ==
    /\ ~frame.made
    /\ frame' = Held(new_send_config_frame2(idcode))
    /\ origin' = Built("new_send_config_frame2", idcode)
    /\ hex' = Idle
    /\ UNCHANGED CmdRest

CallNewSendConfigFrame3(idcode) ==
    /\ ~frame.made
    /\ frame' = Held(new_send_config_frame3(idcode))
    /\ origin' = Built("new_send_config_frame3", idcode)
    /\ hex' = Idle
    /\ UNCHANGED CmdRest

CallNewExtendedFrame(idcode) ==
    /\ ~frame.made
    /\ frame' = Held(new_extended_frame(idcode))
    /\ origin' = Built("new_extended_frame", idcode)
    /\ hex' = Idle
    /\ UNCHANGED CmdRest

\* the fields are public: a client may also write the struct out in full
StructLiteral(prefix, command, extframe, chk) ==
    /\ ~frame.made
    /\ frame' = Held(CommandFrame2011(prefix, command, extframe, chk))
    /\ origin' = Built("literal", prefix.idcode)
    /\ hex' = Idle
    /\ UNCHANGED CmdRest

\* the sender fills in soc and fracsec ("To be filled by sender")
StampTime(soc, fracsec) ==
    /\ frame.made
    /\ frame' = [frame EXCEPT !.value.prefix.soc = soc,
                              !.value.prefix.fracsec = fracsec]
    /\ origin' = [origin EXCEPT !.touched = TRUE]
    /\ hex' = Idle
    /\ UNCHANGED CmdRest

\* the client attaches an extended payload to the extended command (8) it holds
ExtendedCommand == 8
SetExtframe(extframe) ==
    /\ frame.made
    /\ frame.value.command = ExtendedCommand
    /\ frame.value.extframe # extframe
    /\ frame' = [frame EXCEPT !.value.extframe = extframe]
    /\ origin' = [origin EXCEPT !.touched = TRUE]
    /\ hex' = Idle
    /\ UNCHANGED CmdRest

\* to_hex(&self): the bytes returned for the frame held
ToHex ==
    /\ frame.made
    /\ hex = Idle
    /\ hex' = [called |-> TRUE, bytes |-> CommandFrame2011_to_hex(frame.value)]
    /\ UNCHANGED <<frame, origin>>
    /\ UNCHANGED CmdRest

DropFrame ==
    /\ frame.made
    /\ frame' = [made |-> FALSE]
    /\ origin' = NoOrigin
    /\ hex' = Idle
    /\ UNCHANGED CmdRest

NextCmd ==
    \/ \E idcode \in IdcodeVals : CallNewTurnOffTransmission(idcode)
    \/ \E idcode \in IdcodeVals : CallNewTurnOnTransmission(idcode)
    \/ \E idcode \in IdcodeVals : CallNewSendHeaderFrame(idcode)
    \/ \E idcode \in IdcodeVals : CallNewSendConfigFrame1(idcode)
    \/ \E idcode \in IdcodeVals : CallNewSendConfigFrame2(idcode)
    \/ \E idcode \in IdcodeVals : CallNewSendConfigFrame3(idcode)
    \/ \E idcode \in IdcodeVals : CallNewExtendedFrame(idcode)
    \/ \E prefix \in PrefixVals, command \in CommandVals,
          extframe \in ExtVals, chk \in ChkVals :
            StructLiteral(prefix, command, extframe, chk)
    \/ \E soc \in SocVals, fracsec \in FracsecVals : StampTime(soc, fracsec)
    \/ \E extframe \in ExtVals : SetExtframe(extframe)
    \/ ToHex
    \/ DropFrame

SpecCmd == Init /\ [][NextCmd]_vars

----------------------------------------------------------------------------
(* The CRC engine run over bytes that already end with their own CRC: a    *)
(* buffer with crc.to_be_bytes() appended, and the Vec to_hex returns      *)

ResidueRest ==
    <<pfxEnc, pfxDec, dec, reenc, cfgCall, cfg, dataCall, restVars>>

\* result.extend_from_slice(&crc.to_be_bytes()) on the buffer of the call
\* just made, then calculate_crc(&result)
AppendCrcAndCall ==
    /\ crcCall.called
    /\ ~frame.made
    /\ "head" \notin DOMAIN crcCall
    /\ crcCall' =
          LET result == crcCall.buffer \o U16ToBe(crcCall.crc)
          IN  [called |-> TRUE, buffer |-> result,
               crc |-> calculate_crc(result), head |-> crcCall.buffer]
    /\ UNCHANGED <<frame, origin, hex>>
    /\ UNCHANGED ResidueRest

\* calculate_crc(&frame.to_hex())
CallCrcOnHex ==
    /\ hex.called
    /\ crcCall = Idle
    /\ crcCall' = [called |-> TRUE, buffer |-> hex.bytes,
                   crc |-> calculate_crc(hex.bytes)]
    /\ UNCHANGED <<frame, origin, hex>>
    /\ UNCHANGED ResidueRest

\* the frame goes out of scope together with the CRC taken of its bytes
DropFrameAndCrc ==
    /\ frame.made
    /\ frame' = [made |-> FALSE]
    /\ origin' = NoOrigin
    /\ hex' = Idle
    /\ crcCall' = Idle
    /\ UNCHANGED ResidueRest

\* the two callers take turns: the engine on plain buffers while no frame is
\* held, a frame only between two such calls
CallCrcOnBuffer(buffer) == ~frame.made /\ CallCrc(buffer)
ReturnCrcOfBuffer == ~frame.made /\ ReturnCrc
HoldLiteral(prefix, command, extframe, chk) ==
    crcCall = Idle /\ StructLiteral(prefix, command, extframe, chk)

NextResidue ==
    \/ \E buffer \in CrcBuffers : CallCrcOnBuffer(buffer)
    \/ AppendCrcAndCall
    \/ ReturnCrcOfBuffer
    \/ \E prefix \in PrefixVals, command \in CommandVals,
          extframe \in ExtVals, chk \in ChkVals :
            HoldLiteral(prefix, command, extframe, chk)
    \/ ToHex
    \/ CallCrcOnHex
    \/ DropFrameAndCrc

SpecResidue == Init /\ [][NextResidue]_vars

----------------------------------------------------------------------------
(* One bit flipped: in a buffer the CRC engine is then run on again, and   *)
(* in the bytes of a frame between to_hex and the receiver's validation    *)

FlipRest ==
    <<pfxEnc, pfxDec, dec, reenc, cfgCall, cfg, dataCall,
      chmap, batch, disp, twin>>

\* bit k of the buffer inverted (0 = the most significant bit of byte 0)
FlipBit(buffer, k) ==
    LET i == (k \div 8) + 1
        mask == 2 ^ (7 - (k % 8))
    IN  [buffer EXCEPT ![i] = IF (@ \div mask) % 2 = 1 THEN @ - mask
                              ELSE @ + mask]

\* calculate_crc on the buffer of the call just made, with bit k inverted
FlipAndCall(k) ==
    /\ crcCall.called
    /\ ~frame.made
    /\ DOMAIN crcCall = {"called", "buffer", "crc"}
    /\ k < 8 * Len(crcCall.buffer)
    /\ crcCall' = [called |-> TRUE, buffer |-> FlipBit(crcCall.buffer, k),
                   crc |-> calculate_crc(FlipBit(crcCall.buffer, k)),
                   was |-> [buffer |-> crcCall.buffer, crc |-> crcCall.crc]]
    /\ UNCHANGED <<frame, origin, hex, wire>>
    /\ UNCHANGED FlipRest

\* the command word that is the CRC of the prefix with framesize two less
CrcOfShorterPrefix(prefix) ==
    calculate_crc(PrefixFrame2011_to_hex(
        [prefix EXCEPT !.framesize = prefix.framesize - 2]))

\* frames sent: the constructors' prefix, command words as before and one
\* that happens to be the CRC of a shorter prefix
SentPrefixVals ==
    { PrefixFrame2011(CommandSync, CommandFramesize, id, so, 0) :
        id \in IdcodeVals, so \in SocVals }
SentCommandVals ==
    CommandVals \cup
        { CrcOfShorterPrefix(PrefixFrame2011(CommandSync, CommandFramesize,
                                             7734, 0, 0)) }

\* the bytes of to_hex arrive intact
ReceiveIntact ==
    /\ hex.called
    /\ wire = Idle
    /\ wire' = [called |-> TRUE, sent |-> hex.bytes, flipped |-> FALSE,
                buffer |-> hex.bytes, result |-> validate_frame(hex.bytes)]
    /\ UNCHANGED <<crcCall, frame, origin, hex>>
    /\ UNCHANGED FlipRest

\* the bytes of to_hex arrive with bit k, somewhere before the check bytes,
\* inverted
ReceiveFlipped(k) ==
    /\ hex.called
    /\ wire = Idle
    /\ k < 8 * (Len(hex.bytes) - 2)
    /\ wire' = [called |-> TRUE, sent |-> hex.bytes, flipped |-> TRUE,
                bit |-> k, buffer |-> FlipBit(hex.bytes, k),
                result |-> validate_frame(FlipBit(hex.bytes, k))]
    /\ UNCHANGED <<crcCall, frame, origin, hex>>
    /\ UNCHANGED FlipRest

\* the receiver is done with the buffer
DropReceived ==
    /\ wire.called
    /\ wire' = Idle
    /\ UNCHANGED <<crcCall, frame, origin, hex>>
    /\ UNCHANGED FlipRest

DropSent == wire = Idle /\ DropFrame

MaxFlipBits == 8 * (PrefixLen + 2 + MaxExtLen + 2)

NextFlip ==
    \/ \E buffer \in CrcBuffers : CallCrcOnBuffer(buffer)
    \/ \E k \in 0..(MaxFlipBits - 1) : FlipAndCall(k)
    \/ ReturnCrcOfBuffer
    \/ \E prefix \in SentPrefixVals, command \in SentCommandVals,
          extframe \in ExtVals :
            HoldLiteral(prefix, command, extframe, 0)
    \/ ToHex
    \/ ReceiveIntact
    \/ \E k \in 0..(MaxFlipBits - 1) : ReceiveFlipped(k)
    \/ DropReceived
    \/ DropSent

SpecFlip == Init /\ [][NextFlip]_vars

----------------------------------------------------------------------------
(* Two frames held side by side, each encoded with to_hex(&self), in any   *)
(* order.  `first` and `second` keep the values the frames were built      *)
(* with.                                                                   *)

PureRest ==
    <<crcCall, pfxEnc, pfxDec, dec, reenc, cfgCall, cfg, dataCall,
      chmap, batch, disp, wire>>

\* prefixes as the constructors build them, with the sender's time stamp
PurePrefixVals ==
    { PrefixFrame2011(CommandSync, CommandFramesize, id, so, fr) :
        id \in IdcodeVals, so \in SocVals, fr \in FracsecVals }

\* the second frame: the first one over again, with any chk, or one with
\* another command word
TwinsOf(value) ==
    { [value EXCEPT !.chk = chk, !.command = command] :
        chk \in ChkVals, command \in {value.command, 2} }

HoldPair(first, second) ==
    /\ ~frame.made
    /\ ~twin.made
    /\ frame' = Held(first)
    /\ origin' = Built("literal", first.prefix.idcode)
    /\ hex' = Idle
    /\ twin' = [made |-> TRUE, value |-> second, first |-> first,
                second |-> second, hex |-> Idle]
    /\ UNCHANGED PureRest

\* to_hex(&self) on the second frame
TwinToHex ==
    /\ twin.made
    /\ twin.hex = Idle
    /\ twin' = [twin EXCEPT
                  !.hex = [called |-> TRUE,
                           bytes |-> CommandFrame2011_to_hex(twin.value)]]
    /\ UNCHANGED <<frame, origin, hex>>
    /\ UNCHANGED PureRest

DropPair ==
    /\ frame.made
    /\ twin.made
    /\ frame' = [made |-> FALSE]
    /\ origin' = NoOrigin
    /\ hex' = Idle
    /\ twin' = [made |-> FALSE]
    /\ UNCHANGED PureRest

NextPure ==
    \/ \E prefix \in PurePrefixVals, command \in CommandVals,
          extframe \in ExtVals, chk \in ChkVals :
            \E second \in TwinsOf(CommandFrame2011(prefix, command, extframe, chk)) :
                HoldPair(CommandFrame2011(prefix, command, extframe, chk), second)
    \/ ToHex
    \/ TwinToHex
    \/ DropPair

SpecPure == Init /\ [][NextPure]_vars

----------------------------------------------------------------------------
(* A command frame decoded from the wire and encoded again                 *)

DecodeCommand(buffer) ==
    /\ dec = Idle
    /\ dec' = [called |-> TRUE, input |-> buffer, result |-> decode_command(buffer)]
    /\ reenc' = Idle
    /\ UNCHANGED <<crcCall, pfxEnc, pfxDec, frame, origin, hex,
                   cfgCall, cfg, dataCall, restVars>>

\* to_hex on the frame the decoder returned
ReEncode ==
    /\ dec.called /\ dec.result.ok
    /\ reenc = Idle
    /\ reenc' = [called |-> TRUE,
                 bytes |-> CommandFrame2011_to_hex(dec.result.value)]
    /\ UNCHANGED <<crcCall, pfxEnc, pfxDec, frame, origin, hex, dec,
                   cfgCall, cfg, dataCall, restVars>>

DropDecoded ==
    /\ dec.called
    /\ dec' = Idle
    /\ reenc' = Idle
    /\ UNCHANGED <<crcCall, pfxEnc, pfxDec, frame, origin, hex,
                   cfgCall, cfg, dataCall, restVars>>

NextDecode ==
    \/ \E buffer \in CommandBuffers : DecodeCommand(buffer)
    \/ ReEncode
    \/ DropDecoded

SpecDecode == Init /\ [][NextDecode]_vars

----------------------------------------------------------------------------
(* A configuration frame received and parsed                               *)

ParseConfig(pmus, kind) ==
    /\ cfgCall = Idle
    /\ \E buffer \in { ConfigFrame(pmus, kind) } :
          cfgCall' = [called |-> TRUE, pmus |-> pmus, kind |-> kind,
                      buffer |-> buffer,
                      result |-> parse_config_frame_1and2(buffer)]
    /\ UNCHANGED <<crcCall, pfxEnc, pfxDec, frame, origin, hex, dec, reenc,
                   cfg, dataCall, restVars>>

DropConfig ==
    /\ cfgCall.called
    /\ cfgCall' = Idle
    /\ UNCHANGED <<crcCall, pfxEnc, pfxDec, frame, origin, hex, dec, reenc,
                   cfg, dataCall, restVars>>

NextCfg ==
    \/ \E pmus \in PmuLists, kind \in ConfigKinds : ParseConfig(pmus, kind)
    \/ DropConfig

SpecCfg == Init /\ [][NextCfg]_vars

----------------------------------------------------------------------------
(* Data frames received and parsed against the current configuration       *)

\* the configuration in force: any frame the configuration parser accepted
\* for a well-formed configuration frame
InitData ==
    /\ crcCall = Idle
    /\ pfxEnc = Idle
    /\ pfxDec = Idle
    /\ frame = [made |-> FALSE]
    /\ origin = NoOrigin
    /\ hex = Idle
    /\ dec = Idle
    /\ reenc = Idle
    /\ cfgCall = Idle
    /\ \E pmus \in PmuLists :
          cfg = [called |-> TRUE,
                 value |-> parse_config_frame_1and2(ConfigFrame(pmus, "exact")).value]
    /\ dataCall = Idle
    /\ InitRest

ParseData(kind) ==
    /\ cfg.called
    /\ dataCall = Idle
    /\ chmap = Idle
    /\ \E buffer \in { DataFrame(cfg.value.pmu_configs, kind) } :
          dataCall' = [called |-> TRUE, kind |-> kind, buffer |-> buffer,
                       result |-> parse_data_frames(buffer, cfg.value)]
    /\ UNCHANGED <<crcCall, pfxEnc, pfxDec, frame, origin, hex, dec, reenc,
                   cfgCall, cfg, restVars>>

DropData ==
    /\ dataCall.called
    /\ dataCall' = Idle
    /\ UNCHANGED <<crcCall, pfxEnc, pfxDec, frame, origin, hex, dec, reenc,
                   cfgCall, cfg, restVars>>

\* the schema is built from the configuration in force
GetChannelMap ==
    /\ cfg.called
    /\ dataCall = Idle
    /\ chmap = Idle
    /\ chmap' = [called |-> TRUE,
                 entries |-> channel_entries(cfg.value),
                 map |-> get_channel_map(cfg.value)]
    /\ UNCHANGED <<crcCall, pfxEnc, pfxDec, frame, origin, hex, dec, reenc,
                   cfgCall, cfg, dataCall, batch, disp, twin, wire>>

DropChannelMap ==
    /\ chmap.called
    /\ chmap' = Idle
    /\ UNCHANGED <<crcCall, pfxEnc, pfxDec, frame, origin, hex, dec, reenc,
                   cfgCall, cfg, dataCall, batch, disp, twin, wire>>

NextData ==
    \/ \E kind \in DataKinds : ParseData(kind)
    \/ DropData
    \/ GetChannelMap
    \/ DropChannelMap

SpecData == InitData /\ [][NextData]_vars

----------------------------------------------------------------------------
(* A connection: the configuration frame is parsed first; once one has     *)
(* been accepted it is the schema for the data frames that follow          *)

ReceiveConfig(pmus, kind) ==
    /\ ~cfg.called
    /\ ParseConfig(pmus, kind)

\* the accepted configuration frame becomes the configuration in force
AdoptConfig ==
    /\ ~cfg.called
    /\ cfgCall.called
    /\ cfgCall.result.ok
    /\ cfg' = [called |-> TRUE, value |-> cfgCall.result.value]
    /\ cfgCall' = Idle
    /\ UNCHANGED <<crcCall, pfxEnc, pfxDec, frame, origin, hex, dec, reenc,
                   dataCall, restVars>>

NextParse ==
    \/ \E pmus \in PmuLists, kind \in ConfigKinds : ReceiveConfig(pmus, kind)
    \/ AdoptConfig
    \/ DropConfig
    \/ \E kind \in DataKinds : ParseData(kind)
    \/ DropData

SpecParse == Init /\ [][NextParse]_vars

----------------------------------------------------------------------------
(* The top-level read loop, one step at a time.  `last` is what became of  *)
(* the frame before; `steps` lists the checks the buffer has passed.       *)

DispRest ==
    <<crcCall, pfxEnc, pfxDec, frame, origin, hex, dec, reenc,
      cfgCall, cfg, dataCall, chmap, batch, twin, wire>>

\* what is remembered of a finished frame
Outcome(d) == IF d.result.ok THEN d.result.parser ELSE d.result.err

\* a buffer arrives
Offer(buffer) ==
    /\ disp.pc = "idle"
    /\ disp' = [pc |-> "start", last |-> disp.last, buffer |-> buffer,
                steps |-> << >>]
    /\ UNCHANGED DispRest

\* (1) require at least 4 bytes
RequireHeader ==
    /\ disp.pc = "start"
    /\ disp' = IF Len(disp.buffer) < 4
               THEN [pc |-> "done", last |-> disp.last, buffer |-> disp.buffer,
                     steps |-> disp.steps,
                     result |-> [ok |-> FALSE, err |-> "TruncatedFrame"]]
               ELSE [disp EXCEPT !.pc = "header",
                                 !.steps = Append(@, "header")]
    /\ UNCHANGED DispRest

\* (2) read framesize
ReadFramesize ==
    /\ disp.pc = "header"
    /\ disp' = [pc |-> "sized", last |-> disp.last, buffer |-> disp.buffer,
                steps |-> Append(disp.steps, "framesize"),
                framesize |-> frame_size_of(disp.buffer)]
    /\ UNCHANGED DispRest

\* (3) require the full frame in the buffer
RequireFrame ==
    /\ disp.pc = "sized"
    /\ disp' = IF Len(disp.buffer) < disp.framesize
               THEN [pc |-> "done", last |-> disp.last, buffer |-> disp.buffer,
                     steps |-> disp.steps, framesize |-> disp.framesize,
                     result |-> [ok |-> FALSE, err |-> "TruncatedFrame"]]
               ELSE [disp EXCEPT !.pc = "full", !.steps = Append(@, "full")]
    /\ UNCHANGED DispRest

\* (4) dispatch on the frame-type bits
Dispatch ==
    /\ disp.pc = "full"
    /\ disp' = [pc |-> "done", last |-> disp.last, buffer |-> disp.buffer,
                steps |-> Append(disp.steps, "type"),
                framesize |-> disp.framesize,
                result |-> ParserFor(FrameType(U16FromBe(disp.buffer[1],
                                                          disp.buffer[2])))]
    /\ UNCHANGED DispRest

\* the frame is finished; the loop takes the next buffer
NextFrame ==
    /\ disp.pc = "done"
    /\ disp' = [pc |-> "idle", last |-> Outcome(disp)]
    /\ UNCHANGED DispRest

NextDisp ==
    \/ \E buffer \in DispBuffers : Offer(buffer)
    \/ RequireHeader
    \/ ReadFramesize
    \/ RequireFrame
    \/ Dispatch
    \/ NextFrame

SpecDisp == Init /\ [][NextDisp]_vars

----------------------------------------------------------------------------
(* Columns extracted from a buffer of concatenated frames                  *)

ExtractRest ==
    <<crcCall, pfxEnc, pfxDec, frame, origin, hex, dec, reenc,
      cfgCall, cfg, dataCall, chmap, disp, twin, wire>>

\* a column of plain frames
ExtractPlain(frame_size, frames, trail, seed, info) ==
    /\ batch = Idle
    /\ \E buffer \in { PlainBuffer(frame_size, frames, trail, seed) } :
          batch' = [called |-> TRUE, buffer |-> buffer,
                    frame_size |-> frame_size, info |-> info,
                    result |-> extract_channel_values(buffer, frame_size, info)]
    /\ UNCHANGED ExtractRest

\* the timestamp column of data frames received under a configuration whose
\* time_base the caller knows
ExtractTimestamps(frames, trail, frac, quality, time_base) ==
    /\ batch = Idle
    /\ \E buffer \in { StampedBuffer(frames, trail, frac, quality) } :
          batch' = [called |-> TRUE, buffer |-> buffer,
                    frame_size |-> 16, info |-> TimestampEntry,
                    time_base |-> time_base,
                    result |-> extract_channel_values(buffer, 16, TimestampEntry)]
    /\ UNCHANGED ExtractRest

DropBatch ==
    /\ batch.called
    /\ batch' = Idle
    /\ UNCHANGED ExtractRest

NextExtract ==
    \/ \E frame_size \in PlainFrameSizes, frames \in 0..MaxFrames,
          trail \in 0..MaxTrail, seed \in PlainSeeds, info \in PlainChannels :
          ExtractPlain(frame_size, frames, trail, seed, info)
    \/ \E frames \in 0..MaxFrames, trail \in 0..MaxTrail, frac \in StampedFracs,
          quality \in QualityVals, time_base \in TimeBaseVals :
          ExtractTimestamps(frames, trail, frac, quality, time_base)
    \/ DropBatch

SpecExtract == Init /\ [][NextExtract]_vars

----------------------------------------------------------------------------
(* Properties                                                              *)

\* the unsigned value of buffer[lo..hi] read most significant byte first
RECURSIVE BeValue(_, _, _)
BeValue(b, lo, hi) ==
    IF lo > hi THEN 0 ELSE BeValue(b, lo, hi - 1) * 256 + b[hi]

IsBytes(b) == \A i \in 1..Len(b) : b[i] \in 0..255

\* C1: calculate_crc returns 0xBFFA for [0x41,0x42,0x43,0x44], 0x2EF4 for
\* [0x31,..,0x36] and 0x514A for [0x61,0x62,0x63].
C1_ReferenceVectors ==
    crcCall.called =>
        /\ (crcCall.buffer = <<65, 66, 67, 68>> => crcCall.crc = 49146)
        /\ (crcCall.buffer = <<49, 50, 51, 52, 53, 54>> => crcCall.crc = 12020)
        /\ (crcCall.buffer = <<97, 98, 99>> => crcCall.crc = 20810)

C1_Witness ==
    /\ crcCall.called
    /\ crcCall.buffer = <<49, 50, 51, 52, 53, 54>>
    /\ crcCall.crc = 12020

\* C2: to_hex of any command frame is the five prefix fields big-endian
\* (2,2,2,4,4 bytes), the command word big-endian, the extframe bytes if
\* present, and 2 big-endian bytes holding calculate_crc of everything before
\* them; with extframe absent that is 18 bytes.
C2_ToHexLayout ==
    hex.called =>
        LET v == frame.value
            b == hex.bytes
            n == Len(hex.bytes)
            ext == IF frame.value.extframe.some THEN frame.value.extframe.v
                   ELSE << >>
        IN  /\ IsBytes(b)
            /\ n = 16 + Len(ext) + 2
            /\ BeValue(b, 1, 2) = v.prefix.sync
            /\ BeValue(b, 3, 4) = v.prefix.framesize
            /\ BeValue(b, 5, 6) = v.prefix.idcode
            /\ BeValue(b, 7, 10) = v.prefix.soc
            /\ BeValue(b, 11, 14) = v.prefix.fracsec
            /\ BeValue(b, 15, 16) = v.command
            /\ SubSeq(b, 17, n - 2) = ext
            /\ BeValue(b, n - 1, n) = calculate_crc(SubSeq(b, 1, n - 2))
            /\ (~v.extframe.some =>
                    /\ n = 18
                    /\ BeValue(b, 17, 18) = calculate_crc(SubSeq(b, 1, 16)))

C2_Witness ==
    /\ hex.called
    /\ origin.ctor = "literal"
    /\ frame.value.extframe.some
    /\ Len(frame.value.extframe.v) = 2
    /\ frame.value.command = 1286
    /\ frame.value.prefix.soc = 1149591600
    /\ Len(hex.bytes) = 20

\* the command code each constructor stands for
CtorCode(ctor) ==
    CASE ctor = "new_turn_off_transmission" -> 1
      [] ctor = "new_turn_on_transmission" -> 2
      [] ctor = "new_send_header_frame" -> 3
      [] ctor = "new_send_config_frame1" -> 4
      [] ctor = "new_send_config_frame2" -> 5
      [] ctor = "new_send_config_frame3" -> 6
      [] ctor = "new_extended_frame" -> 8

\* C3: each of the seven constructors returns sync 0xAA41, framesize 18, the
\* caller's idcode, soc 0, fracsec 0, no extframe, and command code
\* 1,2,3,4,5,6,8 respectively; none returns code 7 or any other code.
C3_Constructors ==
    (frame.made /\ origin.ctor # "literal" /\ ~origin.touched) =>
        /\ frame.value.prefix =
              [sync |-> 43585, framesize |-> 18, idcode |-> origin.idcode,
               soc |-> 0, fracsec |-> 0]
        /\ ~frame.value.extframe.some
        /\ frame.value.command = CtorCode(origin.ctor)
        /\ frame.value.command \in {1, 2, 3, 4, 5, 6, 8}

C3_Witness ==
    /\ frame.made
    /\ origin = [ctor |-> "new_extended_frame", idcode |-> 7734, touched |-> FALSE]
    /\ frame.value.command = 8
    /\ frame.value.prefix.idcode = 7734

\* C4: in the bytes to_hex emits for a constructor-built frame, the framesize
\* field at bytes 2..4 equals the number of bytes emitted, CRC included, also
\* for an extended frame that carries a non-empty payload.
C4_FramesizeIsLength ==
    (hex.called /\ origin.ctor # "literal") =>
        BeValue(hex.bytes, 3, 4) = Len(hex.bytes)

\* C5: from_hex(to_hex(p)) succeeds and returns p, and to_hex(from_hex(b)) = b:
\* whenever one call was fed the other's result, the prefix and the array of
\* the two calls agree.
C5_PrefixRoundTrip ==
    (pfxEnc.called /\ pfxDec.called) =>
        /\ pfxDec.result.ok
        /\ pfxDec.result.value = pfxEnc.of
        /\ pfxDec.input = pfxEnc.bytes

C5_Witness ==
    /\ pfxEnc.called /\ pfxDec.called
    /\ pfxEnc.of = PrefixFrame2011(43585, 772, 7734, 1149591600, 252428240)
    /\ pfxDec.result.ok
    /\ pfxDec.result.value.soc = 1149591600

C7_CommandRoundTrip ==
    (reenc.called /\ dec.result.ok
        /\ dec.result.value.chk
             = calculate_crc(SubSeq(dec.input, 1, Len(dec.input) - 2)))
      => reenc.bytes = dec.input

C7_Witness ==
    /\ reenc.called
    /\ dec.result.ok
    /\ Len(dec.input) = 20
    /\ dec.result.value.command = 1286
    /\ dec.result.value.extframe = Some(<<1, 253>>)
    /\ dec.result.value.chk = calculate_crc(SubSeq(dec.input, 1, 18))
    /\ dec.input[1] = 187
    /\ reenc.bytes = dec.input

\* the bytes the fields of a configuration frame occupy, field by field
BlockFieldBytes(c) ==
    16 + 2 + 2 + 2 + 2 + 2
       + 16 * (c.phnmr + c.annmr + 16 * c.dgnmr)
       + 4 * c.phnmr + 4 * c.annmr + 4 * c.dgnmr
       + 2 + 2

RECURSIVE SumBlocks(_, _)
SumBlocks(cs, n) ==
    IF n = 0 THEN 0 ELSE SumBlocks(cs, n - 1) + BlockFieldBytes(cs[n])

ConfigFieldBytes(v) == 14 + 4 + 2 + SumBlocks(v.pmu_configs, Len(v.pmu_configs)) + 2 + 2

\* C8: for every configuration frame the parser accepts, 14 + 4 + 2 + the
\* bytes of its num_pmu blocks + 2 + 2 equals the advertised framesize; no
\* frame whose framesize differs from that sum is accepted.
C8_ConfigSizeIsFramesize ==
    (cfgCall.called /\ cfgCall.result.ok) =>
        /\ Len(cfgCall.result.value.pmu_configs) = cfgCall.result.value.num_pmu
        /\ ConfigFieldBytes(cfgCall.result.value)
             = cfgCall.result.value.prefix.framesize

RECURSIVE SumSizes(_)
SumSizes(sizes) == IF sizes = << >> THEN 0 ELSE Head(sizes) + SumSizes(Tail(sizes))

\* C9 as stated: one per-PMU block is 66 + 16(phnmr+annmr+16 dgnmr)
\* + 4 phnmr + 4 annmr + 4 dgnmr bytes, and the walk advances by that much
\* per block.
C9_BlockSize66 ==
    (cfgCall.called /\ cfgCall.result.ok) =>
        \A k \in 1..Len(cfgCall.result.sizes) :
            LET c == cfgCall.result.value.pmu_configs[k]
            IN  cfgCall.result.sizes[k]
                  = 66 + 16 * (c.phnmr + c.annmr + 16 * c.dgnmr)
                       + 4 * c.phnmr + 4 * c.annmr + 4 * c.dgnmr

\* C9 amended: one per-PMU block is 30 + 16(phnmr+annmr+16 dgnmr)
\* + 4 phnmr + 4 annmr + 4 dgnmr bytes, the walk advances by that much per
\* block, and for a single PMU with counts 4, 3, 1 in a 454-byte frame this
\* is 454 - 14 - 4 - 2 - 2 - 2 = 430.
C9_BlockSize30 ==
    /\ (cfgCall.called /\ cfgCall.kind = "exact") => cfgCall.result.ok
    /\ (cfgCall.called /\ cfgCall.result.ok) =>
            /\ \A k \in 1..Len(cfgCall.result.sizes) :
                  LET c == cfgCall.result.value.pmu_configs[k]
                  IN  cfgCall.result.sizes[k]
                        = 30 + 16 * (c.phnmr + c.annmr + 16 * c.dgnmr)
                             + 4 * c.phnmr + 4 * c.annmr + 4 * c.dgnmr
            /\ cfgCall.result.consumed
                  = 14 + 4 + 2 + SumSizes(cfgCall.result.sizes) + 2 + 2
            /\ cfgCall.kind = "exact" =>
                  /\ cfgCall.result.consumed = Len(cfgCall.buffer)
                  /\ Len(cfgCall.result.value.pmu_configs) = Len(cfgCall.pmus)
                  /\ \A k \in 1..Len(cfgCall.pmus) :
                        LET c == cfgCall.result.value.pmu_configs[k]
                        IN  /\ c.stn = StationName
                            /\ PmuDesc(c.format, c.phnmr, c.annmr, c.dgnmr)
                                  = cfgCall.pmus[k]
            /\ (cfgCall.kind = "exact" /\ cfgCall.pmus = <<PmuDesc(4, 4, 3, 1)>>) =>
                  /\ Len(cfgCall.buffer) = 454
                  /\ cfgCall.result.sizes = <<454 - 14 - 4 - 2 - 2 - 2>>

C9_Witness ==
    /\ cfgCall.called
    /\ cfgCall.result.ok
    /\ cfgCall.result.value.prefix.framesize = 454
    /\ cfgCall.result.value.num_pmu = 1
    /\ cfgCall.result.value.pmu_configs[1].phnmr = 4
    /\ cfgCall.result.value.pmu_configs[1].annmr = 3
    /\ cfgCall.result.value.pmu_configs[1].dgnmr = 1
    /\ cfgCall.result.sizes = <<430>>

\* the bytes the per-PMU records of a data frame occupy under a configuration
RecordFieldBytes(c) ==
    2 + c.phnmr * (IF (c.format \div 2) % 2 = 1 THEN 8 ELSE 4)
      + 2 * (IF (c.format \div 8) % 2 = 1 THEN 4 ELSE 2)
      + c.annmr * (IF (c.format \div 4) % 2 = 1 THEN 4 ELSE 2)
      + 2 * c.dgnmr

RECURSIVE SumRecords(_, _)
SumRecords(cs, n) ==
    IF n = 0 THEN 0 ELSE SumRecords(cs, n - 1) + RecordFieldBytes(cs[n])

\* C10: for every data frame that parses successfully against a
\* configuration, framesize = 14 + the sum over PMUs of (2 + phnmr *
\* phasor_size + 2 * freq_dfreq_size + annmr * analog_size + 2 * dgnmr) + 2,
\* and that value equals calc_data_frame_size of the configuration.
C10_DataSizeIsFramesize ==
    (dataCall.called /\ dataCall.result.ok) =>
        /\ dataCall.result.value.prefix.framesize
             = 14 + SumRecords(cfg.value.pmu_configs, Len(cfg.value.pmu_configs)) + 2
        /\ dataCall.result.value.prefix.framesize = calc_data_frame_size(cfg.value)

\* the number of entries the builder inserts for one PMU
PmuColumns(c) == 1 + 2 * c.phnmr + 2 + c.annmr + 16 * c.dgnmr

RECURSIVE SumColumns(_, _)
SumColumns(cs, n) ==
    IF n = 0 THEN 0 ELSE SumColumns(cs, n - 1) + PmuColumns(cs[n])

\* the largest offset + size among entries lo..hi
RECURSIVE MaxEnd(_, _, _)
MaxEnd(entries, lo, hi) ==
    IF lo > hi THEN 0
    ELSE LET rest == MaxEnd(entries, lo + 1, hi)
             here == entries[lo].offset + entries[lo].size
         IN  IF here > rest THEN here ELSE rest

C12_ColumnCount ==
    chmap.called =>
        Len(chmap.map)
          = 1 + SumColumns(cfg.value.pmu_configs, Len(cfg.value.pmu_configs))

\* C13: the extractor emits, for a channel, an array of exactly
\* floor(buffer.len() / frame_size) values; row i is decoded from the size
\* bytes at frame_size * i + offset, rows in the order of the frames; and no
\* read goes past the end of the buffer.
C13_RowsPerFrame ==
    batch.called =>
        LET n == Len(batch.buffer) \div batch.frame_size
            at(i) == batch.frame_size * i + batch.info.offset
        IN  /\ batch.result.ok
            /\ Len(batch.result.values) = n
            /\ \A i \in 0..(n - 1) :
                  /\ at(i) + batch.info.size <= Len(batch.buffer)
                  /\ batch.result.reads[i + 1]
                        = [start |-> at(i), end |-> at(i) + batch.info.size]
                  /\ batch.result.values[i + 1]
                        = decode_value(
                              SubSeq(batch.buffer, at(i) + 1,
                                     at(i) + batch.info.size),
                              batch.info.data_type)

\* floor(r * 100^k / d) for r < d
RECURSIVE ScaleDown(_, _, _)
ScaleDown(r, d, k) ==
    IF k = 0 THEN 0
    ELSE ((r * 100) \div d) * (100 ^ (k - 1)) + ScaleDown((r * 100) % d, d, k - 1)

\* soc * 1_000_000 + f * 1_000_000 / time_base, f the low 24 bits of fracsec
MaskedTimestamp(soc, fracsec, time_base) ==
    LET f == fracsec % 16777216
    IN  [sec |-> soc + (f \div time_base),
         usec |-> ScaleDown(f % time_base, time_base, 3)]

\* C14: the timestamp of a frame is soc * 1_000_000 + f * 1_000_000 /
\* time_base with f the low 24 bits of fracsec, so frames that differ only in
\* the high 8 bits of fracsec get the same timestamp.
C14_TimestampMasked ==
    (batch.called /\ batch.info.data_type = "TimestampMicros" /\ batch.result.ok) =>
        LET n == Len(batch.result.values)
            soc(i) == BeValue(batch.buffer, 16 * i + 7, 16 * i + 10)
            fracsec(i) == BeValue(batch.buffer, 16 * i + 11, 16 * i + 14)
        IN  /\ \A i \in 0..(n - 1) :
                  batch.result.values[i + 1]
                     = MaskedTimestamp(soc(i), fracsec(i), batch.time_base)
            /\ \A i, j \in 0..(n - 1) :
                  (soc(i) = soc(j)
                      /\ fracsec(i) % 16777216 = fracsec(j) % 16777216)
                   => batch.result.values[i + 1] = batch.result.values[j + 1]

\* the errors a parsing operation may return
ParseErrors ==
    {"TruncatedFrame", "MalformedPrefix", "UnknownFrameType", "CrcMismatch",
     "InvalidChannelCount"}

\* a result is a parsed value or exactly one error, nothing of both
ValueOrError(r) ==
    IF r.ok THEN "value" \in DOMAIN r /\ "err" \notin DOMAIN r
    ELSE DOMAIN r = {"ok", "err"} /\ r.err \in ParseErrors

\* the frame's last two bytes are defined and differ from the CRC of the rest
TrailingCrcDiffers(buffer) ==
    /\ Len(buffer) >= 4
    /\ frame_size_of(buffer) >= 4
    /\ frame_size_of(buffer) <= Len(buffer)
    /\ ~crc_validates(buffer)

\* C15: parsing a configuration or a data frame returns either a fully parsed
\* value or exactly one error, never a partial record; a frame whose trailing
\* two bytes differ from the CRC over frame[..framesize-2] is not accepted
\* (CrcMismatch when nothing else is wrong with it, and no PMU record is
\* returned), and a data frame whose records would run past framesize-2
\* yields TruncatedFrame.
C15_ValueOrOneError ==
    /\ cfgCall.called =>
          /\ ValueOrError(cfgCall.result)
          /\ cfgCall.result.ok =>
                Len(cfgCall.result.value.pmu_configs) = cfgCall.result.value.num_pmu
          /\ TrailingCrcDiffers(cfgCall.buffer) => ~cfgCall.result.ok
          /\ cfgCall.kind = "badcrc" => cfgCall.result = [ok |-> FALSE, err |-> "CrcMismatch"]
    /\ dataCall.called =>
          /\ ValueOrError(dataCall.result)
          /\ dataCall.result.ok =>
                Len(dataCall.result.value.data) = Len(cfg.value.pmu_configs)
          /\ TrailingCrcDiffers(dataCall.buffer) => ~dataCall.result.ok
          /\ dataCall.kind = "badcrc" => dataCall.result = [ok |-> FALSE, err |-> "CrcMismatch"]
          /\ (/\ frame_size_of(dataCall.buffer) <= Len(dataCall.buffer)
              /\ FrameType(BeValue(dataCall.buffer, 1, 2)) = 0
              /\ 14 + SumRecords(cfg.value.pmu_configs, Len(cfg.value.pmu_configs))
                    > frame_size_of(dataCall.buffer) - 2)
             => dataCall.result = [ok |-> FALSE, err |-> "TruncatedFrame"]

\* the parser the claim names for each value of the type bits
ClaimedParser(bits) ==
    CASE bits = 0 -> "parse_data_frames"
      [] bits = 1 -> "parse_header_frame"
      [] bits = 2 -> "parse_config_frame_1and2"
      [] bits = 3 -> "parse_config_frame_1and2"
      [] bits = 4 -> "parse_command_frame"
      [] bits = 5 -> "parse_config_frame_3"
      [] OTHER -> "UnknownFrameType"

\* C16: the dispatcher hands a buffer to a parser only after the checks have
\* passed in order: fewer than 4 bytes is rejected, then framesize is read
\* from bytes 2..4, then a buffer shorter than framesize is rejected, then
\* bits 6-4 of the second sync byte select the parser (110 and 111 give
\* UnknownFrameType); the outcome is decided by the buffer alone, whatever
\* frame was dispatched before.
C16_DispatchAfterChecks ==
    /\ disp.pc \in {"sized", "full", "done"} /\ "framesize" \in DOMAIN disp =>
          /\ Len(disp.buffer) >= 4
          /\ disp.framesize = BeValue(disp.buffer, 3, 4)
    /\ disp.pc = "full" => Len(disp.buffer) >= disp.framesize
    /\ disp.pc = "done" =>
          LET len == Len(disp.buffer)
              bits == (disp.buffer[2] \div 16) % 8
          IN  IF len < 4
              THEN /\ disp.result = [ok |-> FALSE, err |-> "TruncatedFrame"]
                   /\ disp.steps = << >>
              ELSE IF len < BeValue(disp.buffer, 3, 4)
              THEN /\ disp.result = [ok |-> FALSE, err |-> "TruncatedFrame"]
                   /\ disp.steps = <<"header", "framesize">>
              ELSE /\ disp.steps = <<"header", "framesize", "full", "type">>
                   /\ Outcome(disp) = ClaimedParser(bits)
                   /\ disp.result.ok <=> bits \notin {6, 7}

C16_Witness ==
    /\ disp.pc = "done"
    /\ disp.last = "UnknownFrameType"
    /\ disp.buffer = DispBuffer(4, 6, 7)
    /\ disp.result = [ok |-> TRUE, parser |-> "parse_command_frame"]
    /\ disp.steps = <<"header", "framesize", "full", "type">>

\* The reference CRC-CCITT as a bit-serial shift register.  The register is
\* the set of positions (0 = least significant) that hold a 1.
RefPoly == {0, 5, 12}                  \* x^12 + x^5 + 1 under the x^16 term
RefInit == 0..15
SymDiff(a, b) == (a \ b) \cup (b \ a)

\* one message bit enters: the bit leaving position 15 is discarded, and the
\* polynomial is added when that bit differs from the message bit
RefStep(reg, bit) ==
    LET shifted == { i + 1 : i \in reg \ {15} }
    IN  IF (15 \in reg) # (bit = 1) THEN SymDiff(shifted, RefPoly) ELSE shifted

\* message bit k (0 = the most significant bit of the first byte)
MsgBit(buffer, k) == (buffer[(k \div 8) + 1] \div (2 ^ (7 - (k % 8)))) % 2

RECURSIVE RefCrc(_, _, _)
RefCrc(reg, buffer, k) ==
    IF k = 8 * Len(buffer) THEN reg
    ELSE CHOOSE r \in { RefCrc(n, buffer, k + 1) :
                         n \in { RefStep(reg, MsgBit(buffer, k)) } } : TRUE

RECURSIVE RegValue(_)
RegValue(reg) ==
    IF reg = {} THEN 0
    ELSE LET i == CHOOSE j \in reg : TRUE IN (2 ^ i) + RegValue(reg \ {i})

\* C17: for every byte sequence, the empty one included (0xFFFF),
\* calculate_crc equals the reference CRC-CCITT computed bit by bit, most
\* significant bit first, with polynomial 0x1021 and initial register 0xFFFF,
\* no reflection and no final XOR; the result is always in 0..65535.
C17_MatchesBitSerial ==
    crcCall.called =>
        /\ crcCall.crc = RegValue(RefCrc(RefInit, crcCall.buffer, 0))
        /\ crcCall.crc \in 0..65535
        /\ (crcCall.buffer = << >> => crcCall.crc = 65535)

C17_Witness ==
    /\ crcCall.called
    /\ crcCall.buffer = <<128, 255>>
    /\ crcCall.crc = RegValue(RefCrc(RefInit, <<128, 255>>, 0))
    /\ crcCall.crc # 65535

\* the frame with its chk field set aside
WithoutChk(v) == [prefix |-> v.prefix, command |-> v.command,
                  extframe |-> v.extframe]

C19_ZeroResidue ==
    /\ (crcCall.called /\ "head" \in DOMAIN crcCall) =>
          LET n == Len(crcCall.head)
          IN  /\ Len(crcCall.buffer) = n + 2
              /\ SubSeq(crcCall.buffer, 1, n) = crcCall.head
              /\ BeValue(crcCall.buffer, n + 1, n + 2)
                    = calculate_crc(crcCall.head)
              /\ crcCall.crc = 0
    /\ (crcCall.called /\ hex.called) =>
          /\ crcCall.buffer = hex.bytes
          /\ crcCall.crc = 0

C19_Witness ==
    /\ crcCall.called
    /\ "head" \in DOMAIN crcCall
    /\ crcCall.head = <<65, 66, 67, 68>>
    /\ crcCall.buffer = <<65, 66, 67, 68, 191, 250>>
    /\ crcCall.crc = 0

\* the number of bit positions in which two equally long buffers differ
RECURSIVE BitsApart(_, _)
BitsApart(x, y) ==
    IF x = 0 /\ y = 0 THEN 0
    ELSE (IF x % 2 = y % 2 THEN 0 ELSE 1) + BitsApart(x \div 2, y \div 2)

RECURSIVE DiffBits(_, _, _)
DiffBits(a, b, i) ==
    IF i > Len(a) THEN 0 ELSE BitsApart(a[i], b[i]) + DiffBits(a, b, i + 1)

\* the first of the two statements of C20: two buffers of the same length
\* one bit apart have different CRC values
OneBitApartDiffers ==
    (crcCall.called /\ "was" \in DOMAIN crcCall) =>
        /\ Len(crcCall.buffer) = Len(crcCall.was.buffer)
        /\ DiffBits(crcCall.buffer, crcCall.was.buffer, 1) = 1
        /\ crcCall.crc # crcCall.was.crc

\* the flipped bit lies in the framesize field (bytes 2..4)
InFramesizeField(k) == k \in 16..31

====
